---- MODULE Spec2Model ----
(***************************************************************************)
(* Model of the asynchronous ingestion pipeline of the Notion webhook      *)
(* server (src/main.py): the /webhook handler and its request validation,  *)
(* the request queue, the batch driver process_request_queue, the          *)
(* per-item dispatch in process_batch, the retrying create_notion_page,    *)
(* the TTL cache in front of get_database_info and the Metrics recorder.   *)
(*                                                                         *)
(* Time is an integer number of seconds.  The event loop is cooperative:   *)
(* every action below runs from one suspension point (await) to the next.  *)
(***************************************************************************)
EXTENDS Integers, Sequences, FiniteSets, TLC

\* ---------------------------------------------------------------- bounds
\* number of POST /webhook requests the model explores
MaxRequests == 3
\* the clock is capped: no suspension ends after MaxTime
MaxTime == 13
\* duration of one external create-record round trip, in seconds
CallDuration == 1
\* number of add_*_time calls explored by the metrics specification
MaxSamples == 102
\* number of clock advances explored by the cache specification
MaxTicks == 4
\* number of get_database_info calls explored by the cache specification
MaxCalls == 4
\* number of requests the read specification sends to /webhook
ReadRequests == 1
\* the clock of the read specification stops at ReadTime
ReadTime == 5
\* number of GET /metrics and GET / calls the read specification explores
MaxReads == 1
\* attempt numbers over which the backoff delays are compared
BackoffRange == 6

\* ------------------------------------------------------ program constants
\* MAX_RETRIES, CACHE_TTL and BATCH_SIZE are read from the environment
\* (defaults 3, 300 and 10).  The model runs the configuration BATCH_SIZE=2,
\* so that a full batch, a partial batch and a second cycle all occur within
\* MaxRequests submissions.
MAX_RETRIES == 3
CACHE_TTL == 300
BATCH_SIZE == 2
\* Metrics.add_*_time keep the latest WindowCap samples
WindowCap == 100
\* asyncio.wait_for(request_queue.get(), timeout=1.0)
DequeueTimeout == 1
\* wait_exponential(multiplier=1, min=4, max=10)
WaitMultiplier == 1
WaitMin == 4
WaitMax == 10

None == "None"

Min(a, b) == IF a < b THEN a ELSE b
Max(a, b) == IF a > b THEN a ELSE b

Range(s) == {s[i] : i \in 1..Len(s)}

RECURSIVE Pow2(_)
Pow2(n) == IF n <= 0 THEN 1 ELSE 2 * Pow2(n - 1)

\* ------------------------------------------------------------ validation
\* Text fields are sequences of characters so that trimming is computed.
IsSpace(c) == c = " "

RECURSIVE LStrip(_)
LStrip(s) == IF s # <<>> /\ IsSpace(Head(s)) THEN LStrip(Tail(s)) ELSE s

RECURSIVE RStrip(_)
RStrip(s) ==
    IF s # <<>> /\ IsSpace(s[Len(s)]) THEN RStrip(SubSeq(s, 1, Len(s) - 1)) ELSE s

\* str.strip()
Strip(s) == RStrip(LStrip(s))

\* the url samples of the model with the outcome of the two regular
\* expressions of ChatMessage on each: Field(pattern="^https?://.*") and
\* the url_pattern of validate_url
MatchesFieldPattern(u) == u \in {"https://example.com", "https://"}
MatchesUrlPattern(u) == u \in {"https://example.com"}

\* datetime.fromisoformat on the timestamp samples of the model
IsIsoFormat(t) == t \in {"2024-03-30T10:00:00+09:00"}

\* the request bodies the model posts to /webhook; a missing field is a
\* field outside the body's domain
ValidBodies ==
    { [name |-> <<"c", "h">>, content |-> <<"t">>, url |-> "https://example.com",
       timestamp |-> "2024-03-30T10:00:00+09:00"],
      [name |-> <<" ", "c", "h">>, content |-> <<"t">>, url |-> "https://example.com",
       timestamp |-> None] }

InvalidBodies ==
    { [name |-> <<>>, content |-> <<"t">>, url |-> "https://example.com", timestamp |-> None],
      [name |-> <<" ">>, content |-> <<"t">>, url |-> "https://example.com", timestamp |-> None],
      [name |-> <<"c", "h">>, content |-> <<"t">>, url |-> "invalid-url", timestamp |-> None],
      [name |-> <<"c", "h">>, content |-> <<"t">>, url |-> "https://", timestamp |-> None],
      [name |-> <<"c", "h">>, url |-> "https://example.com", timestamp |-> None],
      [name |-> <<"c", "h">>, content |-> <<"t">>, url |-> "https://example.com",
       timestamp |-> "yesterday"] }

Bodies == ValidBodies \cup InvalidBodies

\* validation of a text field without the trimming validator
TextFieldErrors_notrim(body, f) ==
    IF f \notin DOMAIN body
    THEN << [field |-> f, message |-> <<"Field", "required">>] >>
    ELSE IF Len(body[f]) < 1
    THEN << [field |-> f, message |-> <<"String", "should", "have", "at", "least", "1", "character">>] >>
    ELSE <<>>

\* validation of one text field (name, content): the list of errors
TextFieldErrors(body, f) ==
    IF f \notin DOMAIN body
    THEN << [field |-> f, message |-> <<"Field", "required">>] >>
    ELSE IF Len(body[f]) < 1
    THEN << [field |-> f, message |-> <<"String", "should", "have", "at", "least", "1", "character">>] >>
    ELSE IF Strip(body[f]) = <<>>
    THEN << [field |-> f, message |-> <<"Value", "error", f, "cannot", "be", "empty">>] >>
    ELSE <<>>

\* validation of the url field
UrlErrors(body) ==
    IF "url" \notin DOMAIN body
    THEN << [field |-> "url", message |-> <<"Field", "required">>] >>
    ELSE IF ~MatchesFieldPattern(body.url)
    THEN << [field |-> "url", message |-> <<"String", "should", "match", "pattern">>] >>
    ELSE IF ~MatchesUrlPattern(body.url)
    THEN << [field |-> "url", message |-> <<"Value", "error", "Invalid URL format">>] >>
    ELSE <<>>

\* validation of the optional timestamp field
TimestampErrors(body) ==
    IF "timestamp" \in DOMAIN body /\ body.timestamp # None /\ ~IsIsoFormat(body.timestamp)
    THEN << [field |-> "timestamp", message |-> <<"Value", "error", "Invalid timestamp format">>] >>
    ELSE <<>>

\* all validation errors of a body, in field order
ValidationErrors(body) ==
    TextFieldErrors(body, "name") \o TextFieldErrors(body, "content")
        \o UrlErrors(body) \o TimestampErrors(body)

\* the validated ChatMessage built from a body that has no error
ChatMessage(body) ==
    [name |-> Strip(body.name), content |-> Strip(body.content), url |-> body.url,
     timestamp |-> IF "timestamp" \in DOMAIN body THEN body.timestamp ELSE None]

\* a message the core may hold: what validation guarantees
IsValidMessage(m) ==
    /\ Len(m.name) >= 1 /\ Strip(m.name) = m.name
    /\ Len(m.content) >= 1 /\ Strip(m.content) = m.content
    /\ MatchesFieldPattern(m.url) /\ MatchesUrlPattern(m.url)
    /\ (m.timestamp = None \/ IsIsoFormat(m.timestamp))

\* ------------------------------------------------------------- responses
NoResponse ==
    [status |-> 0, error |-> "none", message |-> <<>>, details |-> <<>>,
     queue_position |-> 0, id |-> 0]

\* a 202 body whose queue depth was read before the enqueue
AcceptedResponse_before(id, depth) ==
    [status |-> 202, error |-> "none",
     message |-> <<"Request", "queued", "for", "processing">>, details |-> <<>>,
     queue_position |-> depth - 1, id |-> id]

\* the 202 body of webhook
AcceptedResponse(id, depth) ==
    [status |-> 202, error |-> "none",
     message |-> <<"Request", "queued", "for", "processing">>, details |-> <<>>,
     queue_position |-> depth, id |-> id]

\* validation_exception_handler
validation_exception_handler(errors) ==
    [status |-> 422, error |-> "Validation Error",
     message |-> <<"Request", "validation", "failed">>, details |-> errors,
     queue_position |-> 0, id |-> 0]

\* ---------------------------------------------------------------- state
VARIABLES
    app,              \* lifespan phase: "init", "running", "stopped", "failed"
    notion_client,    \* "none" or "open"
    now,              \* the clock, in seconds
    db_cache,         \* TTLCache: set of [key, value, expires]
    fetches,          \* number of databases.retrieve calls issued
    pending,          \* get_database_info calls suspended in their fetch
    calls,            \* number of get_database_info calls started
    ticks,            \* number of clock advances of the cache specification
    returned,         \* value returned by the latest finished get_database_info
    request_queue,    \* asyncio.Queue: sequence of (message, None, start_time)
    processing,       \* the running flag of the driver
    pc,               \* where the driver task is suspended
    batch,            \* the batch of the current cycle
    idx,              \* index in batch of the item being dispatched
    attempt,          \* tenacity attempt_number of the current dispatch
    notion_start,     \* notion_start of the current item
    inflight,         \* the pages.create call in flight
    allTransient,     \* every failed attempt of this dispatch was transient
    total_requests,
    failed_requests,
    queue_size,
    request_times,
    queue_times,
    notion_api_times,
    n_request,        \* number of add_request_time calls so far
    n_queue,          \* number of add_queue_time calls so far
    n_notion,         \* number of add_notion_time calls so far
    nextId,           \* ordinal of the next POST /webhook request
    response,         \* the latest HTTP response of /webhook
    dispatchLog,      \* ids in the order create_notion_page was entered
    lastDispatch,     \* how the latest finished dispatch ended
    pages,            \* ids of the records created in the external store
    store_up,         \* whether the external store answers at the moment
    last_reset,       \* Metrics.last_reset: the start instant
    stats,            \* the latest answer of GET /metrics
    health            \* the latest answer of GET /

cacheVars == <<db_cache, fetches, pending, calls, ticks, returned>>
driverVars == <<pc, batch, idx, attempt, notion_start, inflight, allTransient>>
counterVars == <<total_requests, failed_requests, queue_size>>
windowVars == <<request_times, queue_times, notion_api_times, n_request, n_queue, n_notion>>
ghostVars == <<dispatchLog, lastDispatch, pages>>
readVars == <<store_up, last_reset, stats, health>>

vars ==
    <<app, notion_client, now, cacheVars, request_queue, processing, driverVars,
      counterVars, windowVars, nextId, response, ghostVars, readVars>>

\* ------------------------------------------------------- MetricsRecorder
\* Metrics.add_request_time: append, then drop the oldest beyond the cap
add_request_time(w, t) ==
    LET a == Append(w, t) IN IF Len(a) > WindowCap THEN Tail(a) ELSE a

\* an add_queue_time that drops the newest sample of a full window
add_queue_time_newest(w, t) ==
    LET a == Append(w, t) IN IF Len(a) > WindowCap THEN SubSeq(a, 1, Len(a) - 1) ELSE a

\* Metrics.add_queue_time
add_queue_time(w, t) ==
    LET a == Append(w, t) IN IF Len(a) > WindowCap THEN Tail(a) ELSE a

\* Metrics.add_notion_time
add_notion_time(w, t) ==
    LET a == Append(w, t) IN IF Len(a) > WindowCap THEN Tail(a) ELSE a

\* a number that get_stats reports as a float, kept as a fraction
Ratio(n, d) == [num |-> n, den |-> d]

RECURSIVE Sum(_)
Sum(w) == IF w = <<>> THEN 0 ELSE Head(w) + Sum(Tail(w))

\* statistics.mean(w) if w else 0
Mean(w) == IF w = <<>> THEN Ratio(0, 1) ELSE Ratio(Sum(w), Len(w))

\* a success rate that reports the share of the failed requests
SuccessRate_failed(total, failed) ==
    IF total > 0 THEN Ratio(failed * 100, total) ELSE Ratio(100, 1)

\* the success_rate entry of get_stats
SuccessRate(total, failed) ==
    IF total > 0 THEN Ratio((total - failed) * 100, total) ELSE Ratio(100, 1)

\* statistics that report the depth of the queue at the time of the read
get_stats_live ==
    [total_requests |-> total_requests,
     failed_requests |-> failed_requests,
     current_queue_size |-> Len(request_queue),
     uptime_seconds |-> now - last_reset,
     average_request_time |-> Mean(request_times),
     average_queue_time |-> Mean(queue_times),
     average_notion_time |-> Mean(notion_api_times),
     success_rate |-> SuccessRate(total_requests, failed_requests)]

\* Metrics.get_stats read at the present state
get_stats ==
    [total_requests |-> total_requests,
     failed_requests |-> failed_requests,
     current_queue_size |-> queue_size,
     uptime_seconds |-> now - last_reset,
     average_request_time |-> Mean(request_times),
     average_queue_time |-> Mean(queue_times),
     average_notion_time |-> Mean(notion_api_times),
     success_rate |-> SuccessRate(total_requests, failed_requests)]

\* no GET /metrics has been answered yet
NoStats ==
    [n |-> 0,
     body |-> [total_requests |-> 0, failed_requests |-> 0, current_queue_size |-> 0,
               uptime_seconds |-> 0, average_request_time |-> Ratio(0, 1),
               average_queue_time |-> Ratio(0, 1), average_notion_time |-> Ratio(0, 1),
               success_rate |-> Ratio(100, 1)]]

\* a health answer that probes the external store
root_probe ==
    [status |-> IF store_up THEN "ok" ELSE "degraded",
     message |-> "Server is running",
     queue_size |-> Len(request_queue)]

\* the answer of GET /
root ==
    [status |-> "ok",
     message |-> "Server is running",
     queue_size |-> Len(request_queue)]

\* no GET / has been answered yet
NoHealth ==
    [n |-> 0, reachable |-> TRUE,
     body |-> [status |-> "none", message |-> "none", queue_size |-> 0]]

\* ---------------------------------------------------------- MetadataCache
CacheKey == "database_info"

\* the None of a cache miss; the results of databases.retrieve are numbered
\* from 1, the n-th fetch returning the n-th snapshot of the schema
NoValue == 0

\* a lookup that never expires an entry
CacheGet_forever(cache, key, t) ==
    LET live == {e \in cache : e.key = key}
    IN  IF live = {} THEN NoValue ELSE (CHOOSE e \in live : TRUE).value

\* TTLCache lookup through db_cache.get(key): an entry whose expiry time has
\* been reached (not timer() < expires) is treated as absent
CacheGet(cache, key, t) ==
    LET live == {e \in cache : e.key = key /\ t < e.expires}
    IN  IF live = {} THEN NoValue ELSE (CHOOSE e \in live : TRUE).value

\* TTLCache store db_cache[key] = value: expired entries are purged and the
\* entry of the key is replaced by one with a fresh lifetime
CacheSet(cache, key, v, t) ==
    {e \in cache : e.key # key /\ t < e.expires}
        \cup {[key |-> key, value |-> v, expires |-> t + CACHE_TTL]}

\* ------------------------------------------------------------- Dispatcher
\* the failure texts str(e) the external store answers with in the model
ErrorTexts ==
    { <<"API", "token", "is", "invalid", "Unauthorized">>,
      <<"Not Found", "database">>,
      <<"Validation", "error", "body">>,
      <<"Request", "timed", "out">>,
      <<"Not Found", "or", "Unauthorized">>,
      <<"Validation", "of", "parent", "Not Found">> }

\* the failure of a call made through a client that shutdown has closed
ClosedClientText == <<"NoneType", "object", "has", "no", "attribute", "pages">>

\* `needle in str(e)`
Contains(text, needle) == needle \in Range(text)

\* a classification that looks for "Not Found" first
Classify_notfound_first(text) ==
    IF Contains(text, "Not Found") THEN 404
    ELSE IF Contains(text, "Unauthorized") THEN 401
    ELSE IF Contains(text, "Validation") THEN 400
    ELSE 500

\* the except branch of create_notion_page: the status of the NotionError
Classify(text) ==
    IF Contains(text, "Unauthorized") THEN 401
    ELSE IF Contains(text, "Not Found") THEN 404
    ELSE IF Contains(text, "Validation") THEN 400
    ELSE 500

\* a stop condition that allows one attempt more
StopAfterAttempt_gt(attempt_number) == attempt_number > MAX_RETRIES

\* stop_after_attempt(MAX_RETRIES)
StopAfterAttempt(attempt_number) == attempt_number >= MAX_RETRIES

\* an exponential wait without the floor of min
WaitExponential_nofloor(attempt_number) ==
    Min(WaitMultiplier * Pow2(attempt_number - 1), WaitMax)

\* wait_exponential(multiplier=1, min=4, max=10): the delay after the
\* attempt numbered attempt_number
WaitExponential(attempt_number) ==
    Max(Max(0, WaitMin), Min(WaitMultiplier * Pow2(attempt_number - 1), WaitMax))

\* get_jst_timestamp(): the clock formatted as ISO text
get_jst_timestamp(t) == [text |-> "clock", clock |-> t]

\* a timestamp supplied by the caller, sent as it is
SuppliedDate(ts) == [text |-> ts, clock |-> 0 - 1]

NoCall == [id |-> 0, date |-> SuppliedDate(None), client |-> "none"]

\* properties whose date is stamped with the time of the enqueue
Payload_enqueued(item, t, client) ==
    [id |-> item.id,
     date |-> IF item.message.timestamp # None
              THEN SuppliedDate(item.message.timestamp)
              ELSE get_jst_timestamp(item.start_time),
     client |-> client]

\* the properties create_notion_page builds on each attempt
Payload(item, t, client) ==
    [id |-> item.id,
     date |-> IF item.message.timestamp # None
              THEN SuppliedDate(item.message.timestamp)
              ELSE get_jst_timestamp(t),
     client |-> client]

NoDispatch ==
    [id |-> 0, attempts |-> 0, status |-> 0, allTransient |-> FALSE, text |-> <<>>]

\* ------------------------------------------------------------------ Init
Init ==
    /\ app = "init"
    /\ notion_client = "none"
    /\ now = 0
    /\ db_cache = {}
    /\ fetches = 0
    /\ pending = {}
    /\ calls = 0
    /\ ticks = 0
    /\ returned = NoValue
    /\ request_queue = <<>>
    /\ processing = FALSE
    /\ pc = "unscheduled"
    /\ batch = <<>>
    /\ idx = 0
    /\ attempt = 0
    /\ notion_start = 0
    /\ inflight = NoCall
    /\ allTransient = FALSE
    /\ total_requests = 0
    /\ failed_requests = 0
    /\ queue_size = 0
    /\ request_times = <<>>
    /\ queue_times = <<>>
    /\ notion_api_times = <<>>
    /\ n_request = 0
    /\ n_queue = 0
    /\ n_notion = 0
    /\ nextId = 1
    /\ response = NoResponse
    /\ dispatchLog = <<>>
    /\ lastDispatch = NoDispatch
    /\ pages = <<>>
    /\ store_up = TRUE
    /\ last_reset = now
    /\ stats = NoStats
    /\ health = NoHealth

\* -------------------------------------------------------------- lifespan
\* lifespan startup: open the client, warm the cache through
\* get_database_info, schedule the driver task
StartupOk ==
    /\ app = "init"
    /\ app' = "running"
    /\ notion_client' = "open"
    /\ fetches' = fetches + 1
    /\ calls' = calls + 1
    /\ db_cache' = CacheSet(db_cache, CacheKey, fetches + 1, now)
    /\ returned' = fetches + 1
    /\ pc' = "scheduled"
    /\ UNCHANGED <<now, pending, ticks, request_queue, processing, batch, idx, attempt,
                   notion_start, inflight, allTransient, counterVars, windowVars,
                   nextId, response, ghostVars,
                   readVars>>

\* lifespan startup when databases.retrieve raises: the exception is
\* re-raised and the finally block runs
StartupFail ==
    /\ app = "init"
    /\ app' = "failed"
    /\ fetches' = fetches + 1
    /\ calls' = calls + 1
    /\ processing' = FALSE
    /\ notion_client' = "none"
    /\ UNCHANGED <<now, db_cache, pending, ticks, returned, request_queue, driverVars,
                   counterVars, windowVars, nextId, response, ghostVars,
                   readVars>>

\* a shutdown that may run before the first statement of the driver task
Shutdown_early ==
    /\ app = "running"
    /\ app' = "stopped"
    /\ processing' = FALSE
    /\ notion_client' = "none"
    /\ UNCHANGED <<now, cacheVars, request_queue, driverVars, counterVars, windowVars,
                   nextId, response, ghostVars,
                   readVars>>

\* lifespan shutdown: the finally block.  The driver task was handed to the
\* event loop by create_task before the yield, and the loop runs what was
\* scheduled first before it resumes the lifespan for the shutdown: the
\* first statement of the driver has run by then.
Shutdown ==
    /\ app = "running"
    /\ pc # "scheduled"
    /\ app' = "stopped"
    /\ processing' = FALSE
    /\ notion_client' = "none"
    /\ UNCHANGED <<now, cacheVars, request_queue, driverVars, counterVars, windowVars,
                   nextId, response, ghostVars,
                   readVars>>

\* ------------------------------------------------------- inbound boundary
\* asyncio.Queue.put on the unbounded queue
QueuePut(q, item) == Append(q, item)

\* a get that hands out the newest item instead of the oldest
QueueHead_newest(q) == q[Len(q)]

\* asyncio.Queue.get: the item handed out and the queue left behind
QueueHead(q) == Head(q)

\* a get that leaves the item in the queue
QueueRest_keep(q) == q

\* asyncio.Queue.get: the queue left behind
QueueRest(q) == Tail(q)

\* a webhook that forgets to count the request
CountRequest_skip(n) == n

\* metrics.total_requests += 1
CountRequest(n) == n + 1

\* a handler that waits for the dispatch in progress before it answers
WebhookAccept_awaits(body) ==
    /\ app = "running"
    /\ pc \notin {"calling", "sleeping"}
    /\ nextId <= MaxRequests
    /\ ValidationErrors(body) = <<>>
    /\ total_requests' = CountRequest(total_requests)
    /\ queue_size' = Len(request_queue)
    /\ request_queue' =
           QueuePut(request_queue,
                    [id |-> nextId, message |-> ChatMessage(body), start_time |-> now])
    /\ request_times' = add_request_time(request_times, 0)
    /\ n_request' = n_request + 1
    /\ response' = AcceptedResponse(nextId, Len(request_queue'))
    /\ nextId' = nextId + 1
    /\ UNCHANGED <<app, notion_client, now, cacheVars, processing, driverVars,
                   failed_requests, queue_times, notion_api_times, n_queue, n_notion,
                   ghostVars,
                   readVars>>

\* POST /webhook with a body that passes validation: the webhook handler.
\* put() on the unbounded queue neither suspends nor raises, so the handler
\* runs in one step and its except branches are not taken.
WebhookAccept(body) ==
    /\ app = "running"
    /\ nextId <= MaxRequests
    /\ ValidationErrors(body) = <<>>
    /\ total_requests' = CountRequest(total_requests)
    /\ queue_size' = Len(request_queue)
    /\ request_queue' =
           QueuePut(request_queue,
                    [id |-> nextId, message |-> ChatMessage(body), start_time |-> now])
    /\ request_times' = add_request_time(request_times, 0)
    /\ n_request' = n_request + 1
    /\ response' = AcceptedResponse(nextId, Len(request_queue'))
    /\ nextId' = nextId + 1
    /\ UNCHANGED <<app, notion_client, now, cacheVars, processing, driverVars,
                   failed_requests, queue_times, notion_api_times, n_queue, n_notion,
                   ghostVars,
                   readVars>>

\* POST /webhook with a body that fails validation: the handler body does
\* not run, validation_exception_handler answers
WebhookReject(body) ==
    /\ app = "running"
    /\ nextId <= MaxRequests
    /\ ValidationErrors(body) # <<>>
    /\ response' = [validation_exception_handler(ValidationErrors(body)) EXCEPT !.id = nextId]
    /\ nextId' = nextId + 1
    /\ UNCHANGED <<app, notion_client, now, cacheVars, request_queue, processing,
                   driverVars, counterVars, windowVars, ghostVars,
                   readVars>>

\* ---------------------------------------------------------- BatchCollector
\* the inner loop test with an off-by-one comparison
CollectMore_le(b) == Len(b) <= BATCH_SIZE

\* the inner loop test of process_request_queue: len(batch) < BATCH_SIZE
CollectMore(b) == Len(b) < BATCH_SIZE

\* an outer loop that never looks at the flag
LoopTop_forever ==
    /\ pc' = "collecting"
    /\ batch' = <<>>
    /\ idx' = 0

\* the test of the outer loop and the fresh batch of the next cycle
LoopTop ==
    /\ pc' = IF processing THEN "collecting" ELSE "exited"
    /\ batch' = <<>>
    /\ idx' = 0

\* process_batch enters its loop body for entry j of batch b at time t and
\* runs up to the first await of create_notion_page
StartItem(b, j, t) ==
    /\ batch' = b
    /\ idx' = j
    /\ queue_times' = add_queue_time(queue_times, t - b[j].start_time)
    /\ n_queue' = n_queue + 1
    /\ notion_start' = t
    /\ dispatchLog' = Append(dispatchLog, b[j].id)
    /\ attempt' = 1
    /\ allTransient' = TRUE
    /\ inflight' = Payload(b[j], t, notion_client)
    /\ pc' = "calling"

\* process_batch goes on with entry j of batch b, or returns to the driver
\* loop when the batch is exhausted
Continue(b, j, t) ==
    IF j <= Len(b)
    THEN StartItem(b, j, t)
    ELSE /\ LoopTop
         /\ attempt' = 0
         /\ allTransient' = FALSE
         /\ inflight' = NoCall
         /\ notion_start' = 0
         /\ UNCHANGED <<queue_times, n_queue, dispatchLog>>

\* the driver task runs its first statements: processing = True, loop test
DriverBegin ==
    /\ pc = "scheduled"
    /\ processing' = TRUE
    /\ pc' = "collecting"
    /\ batch' = <<>>
    /\ UNCHANGED <<app, notion_client, now, cacheVars, request_queue, idx, attempt,
                   notion_start, inflight, allTransient, counterVars, windowVars,
                   nextId, response, ghostVars,
                   readVars>>

\* a get that ends the collection as soon as the queue is drained
CollectGet_eager ==
    /\ pc = "collecting"
    /\ CollectMore(batch)
    /\ request_queue # <<>>
    /\ request_queue' = QueueRest(request_queue)
    /\ LET b == Append(batch, QueueHead(request_queue))
       IN  IF CollectMore(b) /\ QueueRest(request_queue) # <<>>
           THEN /\ batch' = b
                /\ UNCHANGED <<pc, idx, attempt, notion_start, inflight, allTransient,
                               queue_times, n_queue, dispatchLog>>
           ELSE Continue(b, 1, now)
    /\ UNCHANGED <<app, notion_client, now, cacheVars, processing, counterVars,
                   request_times, notion_api_times, n_request, n_notion, nextId,
                   response, lastDispatch, pages,
                   readVars>>

\* request_queue.get() returns an item within the timeout
CollectGet ==
    /\ pc = "collecting"
    /\ CollectMore(batch)
    /\ request_queue # <<>>
    /\ request_queue' = QueueRest(request_queue)
    /\ LET b == Append(batch, QueueHead(request_queue))
       IN  IF CollectMore(b)
           THEN /\ batch' = b
                /\ UNCHANGED <<pc, idx, attempt, notion_start, inflight, allTransient,
                               queue_times, n_queue, dispatchLog>>
           ELSE Continue(b, 1, now)
    /\ UNCHANGED <<app, notion_client, now, cacheVars, processing, counterVars,
                   request_times, notion_api_times, n_request, n_notion, nextId,
                   response, lastDispatch, pages,
                   readVars>>

\* request_queue.get() times out: the collection ends with what it has
CollectTimeout ==
    /\ pc = "collecting"
    /\ CollectMore(batch)
    /\ request_queue = <<>>
    /\ now + DequeueTimeout <= MaxTime
    /\ now' = now + DequeueTimeout
    /\ Continue(batch, 1, now')
    /\ UNCHANGED <<app, notion_client, cacheVars, request_queue, processing,
                   counterVars, request_times, notion_api_times, n_request, n_notion,
                   nextId, response, lastDispatch, pages,
                   readVars>>

\* -------------------------------------------------------------- dispatch
\* process_batch without its try/except: the failure leaves the batch
ContinueAfterError_abort(i, b) == Len(b) + 1

\* process_batch after a failed item: `continue` with the next entry
ContinueAfterError(i, b) == i + 1

\* an except branch of process_batch that only logs
CountFailure_silent(n) == n

\* metrics.failed_requests += 1 in the except branch of process_batch
CountFailure(n) == n + 1

\* pages.create returns a record: create_notion_page returns its id and
\* process_batch records the dispatch latency
ExternalSuccess ==
    /\ pc = "calling"
    /\ inflight.client = "open"
    /\ store_up
    /\ now + CallDuration <= MaxTime
    /\ now' = now + CallDuration
    /\ pages' = Append(pages, inflight.id)
    /\ notion_api_times' = add_notion_time(notion_api_times, now' - notion_start)
    /\ n_notion' = n_notion + 1
    /\ lastDispatch' = [id |-> inflight.id, attempts |-> attempt, status |-> 200,
                        allTransient |-> allTransient, text |-> <<>>]
    /\ Continue(batch, idx + 1, now')
    /\ UNCHANGED <<app, notion_client, cacheVars, request_queue, processing,
                   counterVars, request_times, n_request, nextId, response,
                   readVars>>

\* pages.create raises with the failure text `text`: the except branch of
\* create_notion_page classifies it, tenacity either sleeps before the next
\* attempt or re-raises to process_batch
ExternalFailure(text) ==
    /\ pc = "calling"
    /\ text \in (IF inflight.client = "open" THEN ErrorTexts ELSE {ClosedClientText})
    /\ LET d == IF inflight.client = "open" THEN CallDuration ELSE 0
           status == Classify(text)
       IN  /\ now + d <= MaxTime
           /\ now' = now + d
           /\ IF StopAfterAttempt(attempt)
              THEN /\ failed_requests' = CountFailure(failed_requests)
                   /\ lastDispatch' =
                          [id |-> inflight.id, attempts |-> attempt, status |-> status,
                           allTransient |-> (allTransient /\ status = 500),
                           text |-> text]
                   /\ Continue(batch, ContinueAfterError(idx, batch), now')
              ELSE /\ pc' = "sleeping"
                   /\ inflight' = NoCall
                   /\ allTransient' = (allTransient /\ status = 500)
                   /\ UNCHANGED <<failed_requests, lastDispatch, batch, idx, attempt,
                                  notion_start, queue_times, n_queue, dispatchLog>>
    /\ UNCHANGED <<app, notion_client, cacheVars, request_queue, processing,
                   total_requests, queue_size, request_times, notion_api_times,
                   n_request, n_notion, nextId, response, pages,
                   readVars>>

\* the backoff sleep of tenacity ends: the next attempt rebuilds the
\* properties and calls pages.create again
BackoffDone ==
    /\ pc = "sleeping"
    /\ now + WaitExponential(attempt) <= MaxTime
    /\ now' = now + WaitExponential(attempt)
    /\ attempt' = attempt + 1
    /\ inflight' = Payload(batch[idx], now', notion_client)
    /\ pc' = "calling"
    /\ UNCHANGED <<app, notion_client, cacheVars, request_queue, processing, batch, idx,
                   notion_start, allTransient, counterVars, windowVars, nextId,
                   response, ghostVars,
                   readVars>>

\* ------------------------------------------------------- the specification
Next ==
    \/ StartupOk
    \/ StartupFail
    \/ Shutdown
    \/ \E body \in Bodies : WebhookAccept(body)
    \/ \E body \in Bodies : WebhookReject(body)
    \/ DriverBegin
    \/ CollectGet
    \/ CollectTimeout
    \/ ExternalSuccess
    \/ \E text \in ErrorTexts \cup {ClosedClientText} : ExternalFailure(text)
    \/ BackoffDone

Spec == Init /\ [][Next]_vars

\* ------------------------------------------- the cache specification
\* get_database_info applied repeatedly while the clock advances: the
\* wrapper of cache_result up to its await (lookup, and on a miss the start
\* of the fetch), the return of a fetch, and the passing of time.
pipelineVars ==
    <<app, notion_client, request_queue, processing, driverVars, counterVars,
      windowVars, nextId, response, ghostVars, readVars>>

\* the clock advances of the cache specification, in seconds
TickSteps == {1, CACHE_TTL - 1, CACHE_TTL}

\* a wrapper that joins a fetch already in flight instead of issuing its own
CacheCall_singleflight ==
    /\ calls < MaxCalls
    /\ calls' = calls + 1
    /\ LET cache_value == CacheGet(db_cache, CacheKey, now)
       IN  IF cache_value # NoValue
           THEN /\ returned' = cache_value
                /\ UNCHANGED <<fetches, pending>>
           ELSE IF pending # {}
           THEN UNCHANGED <<fetches, pending, returned>>
           ELSE /\ fetches' = fetches + 1
                /\ pending' = pending \cup {[caller |-> calls + 1, value |-> fetches + 1]}
                /\ UNCHANGED returned
    /\ UNCHANGED <<db_cache, ticks, now, pipelineVars>>

\* wrapper: db_cache.get(cache_key); a hit returns at once, a miss awaits
\* func, the fetch numbered fetches + 1
CacheCall ==
    /\ calls < MaxCalls
    /\ calls' = calls + 1
    /\ LET cache_value == CacheGet(db_cache, CacheKey, now)
       IN  IF cache_value # NoValue
           THEN /\ returned' = cache_value
                /\ UNCHANGED <<fetches, pending>>
           ELSE /\ fetches' = fetches + 1
                /\ pending' = pending \cup {[caller |-> calls + 1, value |-> fetches + 1]}
                /\ UNCHANGED returned
    /\ UNCHANGED <<db_cache, ticks, now, pipelineVars>>

\* wrapper after the await: db_cache[cache_key] = result; return result
FetchReturn(p) ==
    /\ p \in pending
    /\ pending' = pending \ {p}
    /\ db_cache' = CacheSet(db_cache, CacheKey, p.value, now)
    /\ returned' = p.value
    /\ UNCHANGED <<fetches, calls, ticks, now, pipelineVars>>

\* databases.retrieve raises: the wrapper stores nothing
FetchRaise(p) ==
    /\ p \in pending
    /\ pending' = pending \ {p}
    /\ UNCHANGED <<db_cache, returned, fetches, calls, ticks, now, pipelineVars>>

\* time passes
CacheTick(d) ==
    /\ ticks < MaxTicks
    /\ ticks' = ticks + 1
    /\ now' = now + d
    /\ UNCHANGED <<db_cache, returned, fetches, calls, pending, pipelineVars>>

NextCache ==
    \/ CacheCall
    \/ \E p \in pending : FetchReturn(p)
    \/ \E p \in pending : FetchRaise(p)
    \/ \E d \in TickSteps : CacheTick(d)

SpecCache == Init /\ [][NextCache]_vars

\* databases.retrieve is a network call with a deadline: every fetch in
\* flight ends, by returning or by raising
FairSpecCache ==
    SpecCache /\ WF_vars(\E p \in pending : FetchReturn(p) \/ FetchRaise(p))

\* ----------------------------------------- the metrics specification
\* The three recorders applied in any order; the n-th sample of a window is
\* the number n, so that a window shows which samples it kept.
nonWindowVars ==
    <<app, notion_client, now, cacheVars, request_queue, processing, driverVars,
      counterVars, nextId, response, ghostVars, readVars>>

RecordRequestTime ==
    /\ n_request + n_queue + n_notion < MaxSamples
    /\ request_times' = add_request_time(request_times, n_request + 1)
    /\ n_request' = n_request + 1
    /\ UNCHANGED <<queue_times, notion_api_times, n_queue, n_notion, nonWindowVars>>

RecordQueueTime ==
    /\ n_request + n_queue + n_notion < MaxSamples
    /\ queue_times' = add_queue_time(queue_times, n_queue + 1)
    /\ n_queue' = n_queue + 1
    /\ UNCHANGED <<request_times, notion_api_times, n_request, n_notion, nonWindowVars>>

RecordNotionTime ==
    /\ n_request + n_queue + n_notion < MaxSamples
    /\ notion_api_times' = add_notion_time(notion_api_times, n_notion + 1)
    /\ n_notion' = n_notion + 1
    /\ UNCHANGED <<request_times, queue_times, n_request, n_queue, nonWindowVars>>

NextMetrics == RecordRequestTime \/ RecordQueueTime \/ RecordNotionTime

SpecMetrics == Init /\ [][NextMetrics]_vars

\* ------------------------------------------- the drain specification
\* The pipeline where requests arrive only while the driver is not
\* collecting: every cycle starts with the entries it will find and none
\* is added until the batch is handed to process_batch.
NextDrain ==
    \/ StartupOk
    \/ \E body \in Bodies : pc # "collecting" /\ WebhookAccept(body)
    \/ DriverBegin
    \/ CollectGet
    \/ CollectTimeout
    \/ ExternalSuccess
    \/ \E text \in ErrorTexts : ExternalFailure(text)
    \/ BackoffDone

SpecDrain == Init /\ [][NextDrain]_vars

\* -------------------------------------------- the read specification
\* The pipeline together with the two read endpoints, whose answers are
\* kept, and an external store that goes away and comes back.
\* the external store stops answering
StoreDown ==
    /\ store_up
    /\ store_up' = FALSE
    /\ UNCHANGED <<app, notion_client, now, cacheVars, request_queue, processing,
                   driverVars, counterVars, windowVars, nextId, response, ghostVars,
                   last_reset, stats, health>>

\* the external store answers again
StoreUp ==
    /\ ~store_up
    /\ store_up' = TRUE
    /\ UNCHANGED <<app, notion_client, now, cacheVars, request_queue, processing,
                   driverVars, counterVars, windowVars, nextId, response, ghostVars,
                   last_reset, stats, health>>

\* a GET /metrics that starts a new measuring period on every read
GetMetrics_reset ==
    /\ app = "running"
    /\ stats.n + health.n < MaxReads
    /\ stats' = [n |-> stats.n + 1, body |-> get_stats]
    /\ request_times' = <<>>
    /\ queue_times' = <<>>
    /\ notion_api_times' = <<>>
    /\ last_reset' = now
    /\ UNCHANGED <<app, notion_client, now, cacheVars, request_queue, processing,
                   driverVars, counterVars, n_request, n_queue, n_notion, nextId,
                   response, ghostVars, store_up, health>>

\* GET /metrics
GetMetrics ==
    /\ app = "running"
    /\ stats.n + health.n < MaxReads
    /\ stats' = [n |-> stats.n + 1, body |-> get_stats]
    /\ UNCHANGED <<app, notion_client, now, cacheVars, request_queue, processing,
                   driverVars, counterVars, windowVars, nextId, response, ghostVars,
                   store_up, last_reset, health>>

\* GET /
Root ==
    /\ app = "running"
    /\ stats.n + health.n < MaxReads
    /\ health' = [n |-> health.n + 1, reachable |-> store_up, body |-> root]
    /\ UNCHANGED <<app, notion_client, now, cacheVars, request_queue, processing,
                   driverVars, counterVars, windowVars, nextId, response, ghostVars,
                   store_up, last_reset, stats>>

NextReads ==
    \/ Next /\ nextId' <= ReadRequests + 1 /\ now' <= ReadTime
    \/ StoreDown
    \/ StoreUp
    \/ GetMetrics
    \/ Root

SpecReads == Init /\ [][NextReads]_vars

\* ================================================================ claims
Ids(q) == [i \in 1..Len(q) |-> q[i].id]

\* the entries of the current batch whose dispatch has not started
PendingBatch == SubSeq(batch, idx + 1, Len(batch))

StrictlyIncreasing(q) == \A i, j \in 1..Len(q) : i < j => q[i] < q[j]

\* a dispatch ended with the failure raised to process_batch
Failed(d) == d.id # 0 /\ d.status # 200

\* C1: submissions are numbered in the order their enqueue completes; the
\* ids for which create_notion_page was entered, followed by the ids still
\* waiting in the batch and in the queue, are in increasing order, and so
\* are the ids of the records created: dispatch follows enqueue order
\* within and across batches, and a failed item changes no one's place.
C1_DispatchInEnqueueOrder ==
    /\ StrictlyIncreasing(dispatchLog \o Ids(PendingBatch) \o Ids(request_queue))
    /\ StrictlyIncreasing(pages)
    /\ Range(pages) \subseteq Range(dispatchLog)

C1_Witness ==
    /\ Len(dispatchLog) = 3
    /\ failed_requests >= 1
    /\ Len(batch) = 1

\* C2: the batch being collected or dispatched never holds more than
\* BATCH_SIZE entries.
C2_BatchBounded == Len(batch) <= BATCH_SIZE

C2_Witness ==
    /\ Len(batch) = BATCH_SIZE
    /\ request_queue # <<>>
    /\ pc = "calling"

\* C3: a dispatch never makes more than MAX_RETRIES attempts, goes on to
\* another attempt only while fewer than MAX_RETRIES were made, and when
\* every attempt failed with a transient text it ends after exactly
\* MAX_RETRIES attempts with the 500 failure raised to its caller.
C3_ExactlyMaxRetriesAttempts ==
    /\ attempt <= MAX_RETRIES
    /\ pc = "sleeping" => attempt < MAX_RETRIES
    /\ (Failed(lastDispatch) /\ lastDispatch.allTransient)
           => (lastDispatch.attempts = MAX_RETRIES /\ lastDispatch.status = 500)
    /\ Failed(lastDispatch) => lastDispatch.id \notin Range(pages)

C3_Witness ==
    /\ Failed(lastDispatch)
    /\ lastDispatch.allTransient
    /\ lastDispatch.attempts = MAX_RETRIES
    /\ lastDispatch.status = 500

\* a step in which a dispatch ends in failure
DispatchFails == lastDispatch' # lastDispatch /\ lastDispatch'.status # 200

\* C4: the step in which a dispatch ends in failure adds exactly one to
\* failed_requests, and the driver goes on: with the next entry of the same
\* batch if there is one, else with the loop test of the driver.
C4_FailureIsolated ==
    [][DispatchFails =>
          /\ failed_requests' = failed_requests + 1
          /\ IF idx < Len(batch)
             THEN /\ batch' = batch
                  /\ idx' = idx + 1
                  /\ pc' = "calling"
                  /\ dispatchLog' = Append(dispatchLog, batch[idx + 1].id)
             ELSE /\ pc' = (IF processing THEN "collecting" ELSE "exited")
                  /\ dispatchLog' = dispatchLog]_vars

C4_Witness ==
    /\ Failed(lastDispatch)
    /\ Len(batch) = 2
    /\ idx = 2
    /\ lastDispatch.id = batch[1].id
    /\ pc = "calling"
    /\ failed_requests = 1

\* C5: failed_requests never exceeds total_requests.
C5_FailedAtMostTotal == failed_requests <= total_requests

C5_Witness ==
    /\ failed_requests >= 1
    /\ failed_requests = total_requests

\* a step of the webhook handler proper
WebhookRuns == total_requests' # total_requests

\* C6: the webhook handler enqueues the submission at the tail and answers
\* 202 with the queue depth read after the enqueue, counting no failure; no
\* step other than a POST /webhook produces or alters a response, so the
\* outcome of the dispatch never reaches the submitter.
C6_AcceptedWhateverTheDispatch ==
    [][/\ WebhookRuns =>
            /\ Len(request_queue') = Len(request_queue) + 1
            /\ SubSeq(request_queue', 1, Len(request_queue)) = request_queue
            /\ request_queue'[Len(request_queue')].id = response'.id
            /\ response'.status = 202
            /\ response'.queue_position = Len(request_queue')
            /\ failed_requests' = failed_requests
       /\ nextId' = nextId => response' = response]_vars

C6_Witness ==
    /\ response.status = 202
    /\ Failed(lastDispatch)
    /\ lastDispatch.id = response.id
    /\ failed_requests = 1

\* C7: a request that fails validation is answered without the handler
\* running: the step leaves the queue, the driver, the counters and the
\* windows unchanged, its request never appears in the queue, in a batch or
\* among the dispatches, and every message the core holds is a valid one.
C7_RejectedBeforeTheCore ==
    /\ [](\A i \in 1..Len(request_queue) : IsValidMessage(request_queue[i].message))
    /\ [](\A i \in 1..Len(batch) : IsValidMessage(batch[i].message))
    /\ [](response.status = 422 =>
             response.id \notin
                 Range(Ids(request_queue)) \cup Range(Ids(batch)) \cup Range(dispatchLog))
    /\ [][response'.status = 422 /\ nextId' # nextId =>
             UNCHANGED <<request_queue, driverVars, counterVars, windowVars, ghostVars>>]_vars

C7_Witness ==
    /\ response.status = 422
    /\ request_queue # <<>>
    /\ dispatchLog # <<>>

\* C8: a request that fails validation is answered with status 400 and a
\* message that names the offending field.
C8_ValidationAnswered400 ==
    response.details # <<>> =>
        /\ response.status = 400
        /\ \A i \in 1..Len(response.details) :
               LET f == response.details[i].field
               IN  /\ f = "name" => Contains(response.message, "name")
                   /\ f = "url" => Contains(response.message, "Invalid URL format")
                   /\ f = "content" => Contains(response.message, "content")

\* a step that starts a get_database_info call while no other is in flight
SequentialCall == calls' = calls + 1 /\ pending = {}

\* C9: a sequential get_database_info call made while the entry is younger
\* than CACHE_TTL issues no fetch, returns the stored value and leaves the
\* entry and its expiry as they are; one made when there is no entry, or
\* when the entry is older than CACHE_TTL, issues a fetch; and a store
\* replaces the entry by the fetched value with a lifetime of CACHE_TTL.
C9_CachedWithinTtl ==
    [][/\ (SequentialCall /\ \E e \in db_cache : now < e.expires) =>
              /\ fetches' = fetches
              /\ db_cache' = db_cache
              /\ \E e \in db_cache : returned' = e.value
       /\ (SequentialCall /\ \A e \in db_cache : now > e.expires) =>
              /\ fetches' = fetches + 1
              /\ Cardinality(pending') = 1
       /\ db_cache' # db_cache =>
              db_cache' = {[key |-> CacheKey, value |-> returned',
                            expires |-> now + CACHE_TTL]}]_vars

C9_Witness ==
    /\ calls >= 3
    /\ fetches = 2
    /\ returned = 2
    /\ pending = {}
    /\ now > CACHE_TTL
    /\ \E e \in db_cache : e.value = 2 /\ e.expires > now

\* the window that n samples numbered 1..n leave behind
Latest(n) ==
    [i \in 1..Min(n, WindowCap) |-> n - Min(n, WindowCap) + i]

\* C10: each rolling window holds at most WindowCap samples, and holds
\* exactly the latest min(n, WindowCap) of the n samples added to it, in
\* the order they were added, whatever was added to the other windows.
C10_RollingWindows ==
    /\ Len(request_times) <= WindowCap
    /\ Len(queue_times) <= WindowCap
    /\ Len(notion_api_times) <= WindowCap
    /\ request_times = Latest(n_request)
    /\ queue_times = Latest(n_queue)
    /\ notion_api_times = Latest(n_notion)

C10_Witness ==
    /\ n_queue = WindowCap + 1
    /\ Len(queue_times) = WindowCap
    /\ queue_times[1] = 2
    /\ n_request = 1

\* C11: the success_rate that get_stats reports is 100 while no request has
\* been counted and (total - failed) / total * 100 afterwards (5 requests
\* of which 2 failed give 60); in every reachable state it lies between 0
\* and 100.
C11_SuccessRateInRange ==
    LET r == get_stats.success_rate
    IN  /\ r.den > 0
        /\ 0 <= r.num
        /\ r.num <= 100 * r.den
        /\ total_requests = 0 => r = Ratio(100, 1)
        /\ total_requests > 0 =>
               r.num * total_requests = (total_requests - failed_requests) * 100 * r.den
        /\ SuccessRate(5, 2).num = 60 * SuccessRate(5, 2).den
        /\ SuccessRate(0, 0) = Ratio(100, 1)

\* three requests counted, one of them failed: a rate of two thirds
C11_Witness ==
    /\ total_requests = 3
    /\ failed_requests = 1
    /\ get_stats.success_rate.num * 3 = 200 * get_stats.success_rate.den

\* the collection of a cycle ends and process_batch is entered
BatchStarts == idx = 0 /\ idx' = 1

\* C12: when no request arrives during a collection, the cycle hands over
\* exactly min(BATCH_SIZE, remaining) entries, remaining being the entries
\* accepted and not yet handed to the dispatcher, and a batch that reached
\* BATCH_SIZE is handed over without any dequeue timeout.
C12_BatchIsMinOfSizeAndRemaining ==
    [][BatchStarts =>
          /\ Len(batch') = Min(BATCH_SIZE, total_requests - Len(dispatchLog))
          /\ Len(batch') = BATCH_SIZE => now' = now]_vars

\* three entries queued at once: a full first batch went out without any
\* wait and the second cycle hands over the one entry left
C12_Witness ==
    /\ pc = "calling"
    /\ idx = 1
    /\ Len(batch) = 1
    /\ batch[1].id = 3
    /\ dispatchLog = <<1, 2, 3>>
    /\ pages = <<1, 2>>
    /\ now = 2 * CallDuration + DequeueTimeout

\* C13: only a failure classified Transient (500) is followed by another
\* attempt: a dispatch that waits for, or runs, a further attempt has seen
\* transient failures only.
C13_OnlyTransientRetried ==
    (pc = "sleeping" \/ (pc = "calling" /\ attempt > 1)) => allTransient

\* the driver evaluates `while processing:` again: process_batch has
\* returned, or a collection has timed out with nothing in it
LoopTestStep ==
    \/ pc = "calling" /\ pc' \notin {"calling", "sleeping"}
    \/ pc = "collecting" /\ batch = <<>> /\ now' # now

\* an upper bound of the number of steps the driver still takes once the
\* flag is false
StepsLeft ==
    LET perEntry == 2 * MAX_RETRIES
        perBatch == BATCH_SIZE * perEntry
    IN  CASE pc = "exited" -> 0
          [] pc = "calling" ->
                 (Len(batch) - idx) * perEntry + 2 * (MAX_RETRIES - attempt) + 2
          [] pc = "sleeping" ->
                 (Len(batch) - idx) * perEntry + 2 * (MAX_RETRIES - attempt) + 1
          [] pc = "collecting" -> perBatch + 2 + (BATCH_SIZE - Len(batch))
          [] OTHER -> 0

\* C14: once shutdown has set the flag to false, the next evaluation of the
\* loop test ends the driver, which never runs again; until then every
\* step of the driver brings it closer to that exit; and the batch in
\* flight is not dropped: its entries are dispatched one after the other,
\* each until it succeeds or has used MAX_RETRIES attempts, and the driver
\* leaves only after the last of them.
C14_CooperativeShutdown ==
    /\ [](app = "stopped" => ~processing)
    /\ [][/\ (LoopTestStep /\ ~processing => pc' = "exited")
          /\ (pc = "exited" => UNCHANGED driverVars)
          /\ (app = "stopped" /\ driverVars' # driverVars =>
                 /\ StepsLeft' < StepsLeft
                 /\ StepsLeft' >= 0)
          /\ (app = "stopped" /\ pc \in {"calling", "sleeping"}
                 /\ driverVars' # driverVars =>
                 /\ (pc' = "exited" => idx = Len(batch))
                 /\ (pc' # "exited" =>
                        /\ batch' = batch
                        /\ pc' \in {"calling", "sleeping"}
                        /\ idx' \in {idx, idx + 1})
                 /\ (pc' = "exited" \/ idx' # idx =>
                        /\ lastDispatch'.id = batch[idx].id
                        /\ \/ lastDispatch'.status = 200
                           \/ lastDispatch'.attempts = MAX_RETRIES))]_vars

\* shutdown came during the first call of a batch of two: the second entry
\* was still dispatched, with all its attempts, before the driver left
C14_Witness ==
    /\ app = "stopped"
    /\ pc = "exited"
    /\ dispatchLog = <<1, 2>>
    /\ pages = <<1>>
    /\ lastDispatch.id = 2
    /\ lastDispatch.attempts = MAX_RETRIES
    /\ lastDispatch.text = ClosedClientText
    /\ Len(queue_times) = 2

\* C15: answering GET /metrics changes nothing but the answer: the
\* counters, the queue-depth gauge, the three windows, the start instant,
\* the queue and the cache are left as they were, and the answer is
\* get_stats of that unchanged state.
C15_MetricsReadOnly ==
    [][stats' # stats =>
          /\ stats'.body = get_stats
          /\ UNCHANGED <<total_requests, failed_requests, queue_size>>
          /\ UNCHANGED <<request_times, queue_times, notion_api_times>>
          /\ UNCHANGED <<last_reset, request_queue, db_cache>>
          /\ get_stats' = get_stats]_vars

\* the metrics were read while a request waited in the queue, with a
\* sample in the request window and the schema in the cache
C15_Witness ==
    /\ stats.n = 1
    /\ stats.body.total_requests = 1
    /\ request_queue # <<>>
    /\ Len(request_times) = 1
    /\ db_cache # {}
    /\ stats.body = get_stats

\* C16 as stated: every answer of the health operation reflects the
\* external store, ok when it is reachable and degraded when it is not.
C16_HealthReflectsStore ==
    [][health' # health =>
          /\ store_up => health'.body.status = "ok"
          /\ ~store_up => health'.body.status = "degraded"]_vars

\* C16 amended: the health operation (GET /) makes no call to the external
\* store; every answer has status ok and the present depth of the queue,
\* whether or not the store is reachable.
C16_HealthIsLiveness ==
    [][health' # health =>
          /\ health'.body.status = "ok"
          /\ health'.body.queue_size = Len(request_queue)
          /\ UNCHANGED <<cacheVars, request_queue, store_up, notion_client>>]_vars

\* GET / answered ok while the external store was unreachable
C16_Witness ==
    /\ health.n = 1
    /\ ~health.reachable
    /\ health.body.status = "ok"

\* the backoff sleep of a dispatch ends
BackoffEnds == pc = "sleeping" /\ pc' = "calling"

\* C17 as stated: the delay never exceeds the maximum and, from the second
\* delay on, is twice the delay before it unless the cap cuts it.
C17_DelayDoubles ==
    pc = "sleeping" =>
        /\ WaitExponential(attempt) <= WaitMax
        /\ attempt > 1 =>
               WaitExponential(attempt) = Min(2 * WaitExponential(attempt - 1), WaitMax)

\* C17 amended: the delay slept after attempt k is the exponential term
\* clamped between the minimum and the maximum wait: it is never below the
\* minimum nor above the maximum, never decreases and at most doubles from
\* one attempt to the next, reaches the maximum, and starts at the minimum,
\* where it stays for the second delay as well.
C17_DelayClamped ==
    [][BackoffEnds =>
          /\ now' - now = WaitExponential(attempt)
          /\ now' - now >= WaitMin
          /\ now' - now <= WaitMax
          /\ attempt' = attempt + 1
          /\ \A k \in 1..BackoffRange :
                 /\ WaitMin <= WaitExponential(k)
                 /\ WaitExponential(k) <= WaitMax
                 /\ WaitExponential(k) <= WaitExponential(k + 1)
                 /\ WaitExponential(k + 1) <= 2 * WaitExponential(k)
          /\ WaitExponential(1) = WaitMin
          /\ WaitExponential(2) = WaitMin
          /\ \E k \in 1..BackoffRange : WaitExponential(k) = WaitMax]_vars

\* the second delay of a dispatch is being slept: it is as long as the
\* first, not twice as long
C17_Witness ==
    /\ pc = "sleeping"
    /\ attempt = 2
    /\ WaitExponential(2) = WaitExponential(1)
    /\ now - notion_start >= WaitExponential(1) + 2 * CallDuration

\* the dispatcher is suspended in the external call or in a backoff sleep
DispatcherSuspended == pc \in {"calling", "sleeping"}

\* dispatches entered and not yet ended
DispatchesInProgress == Len(dispatchLog) - Len(pages) - failed_requests

\* C18: at most one dispatch is in progress, and it is the one the
\* suspended dispatcher waits for: no other entry is started before it ends.
\* Meanwhile a valid POST /webhook can run at once (as long as the model
\* has a request left to send): it takes no time, leaves the driver where
\* it is, enqueues its submission and answers 202.
C18_OneCallInFlightWebhookResponsive ==
    /\ [](DispatchesInProgress = IF DispatcherSuspended THEN 1 ELSE 0)
    /\ [](DispatcherSuspended /\ app = "running" /\ nextId <= MaxRequests =>
             ENABLED (\E body \in ValidBodies : WebhookAccept(body)))
    /\ [][/\ DispatcherSuspended /\ dispatchLog' # dispatchLog =>
                /\ lastDispatch'.id = batch[idx].id
                /\ Len(dispatchLog') = Len(dispatchLog) + 1
                /\ Len(pages') + failed_requests' = Len(pages) + failed_requests + 1
          /\ DispatcherSuspended /\ WebhookRuns =>
                /\ now' = now
                /\ UNCHANGED driverVars
                /\ response'.status = 202
                /\ Len(request_queue') = Len(request_queue) + 1]_vars

\* a submission was accepted while the dispatch of an earlier one was
\* sleeping between two attempts
C18_Witness ==
    /\ pc = "sleeping"
    /\ DispatchesInProgress = 1
    /\ response.status = 202
    /\ request_queue # <<>>
    /\ request_queue[Len(request_queue)].id = response.id
    /\ request_queue[Len(request_queue)].start_time > notion_start

\* the class the claimed order gives a failure text
ClassInOrder(text, status) ==
    LET u == Contains(text, "Unauthorized")
        n == Contains(text, "Not Found")
        v == Contains(text, "Validation")
    IN  /\ status \in {401, 404, 400, 500}
        /\ status = 401 <=> u
        /\ status = 404 <=> ~u /\ n
        /\ status = 400 <=> ~u /\ ~n /\ v
        /\ status = 500 <=> ~u /\ ~n /\ ~v

\* C19: the status a failed dispatch ends with follows from the text of
\* its last failure alone: 401 when it contains "Unauthorized", otherwise
\* 404 when it contains "Not Found", otherwise 400 when it contains
\* "Validation", otherwise 500; a text that matches several patterns gets
\* the first of them in this order, and every text gets exactly one class.
C19_ClassifiedInOrder ==
    Failed(lastDispatch) =>
        /\ ClassInOrder(lastDispatch.text, lastDispatch.status)
        /\ \A text \in ErrorTexts \cup {ClosedClientText} :
               ClassInOrder(text, Classify(text))

\* a dispatch ended on a text that names both "Not Found" and
\* "Unauthorized": it is classified 401
C19_Witness ==
    /\ Failed(lastDispatch)
    /\ Contains(lastDispatch.text, "Not Found")
    /\ Contains(lastDispatch.text, "Unauthorized")
    /\ lastDispatch.status = 401

\* a dequeue wait of the collection times out
DequeueTimesOut == pc = "collecting" /\ now' # now

\* C20: a collection goes on while the batch is short of BATCH_SIZE and
\* ends either in the step of the get that fills the batch, with no wait,
\* or when one dequeue wait times out after DequeueTimeout with the queue
\* empty: a batch shorter than BATCH_SIZE is handed over only by a timeout.
\* A timeout with an empty batch enters no process_batch and changes no
\* counter, window or dispatch record; the driver is back at its loop test.
C20_CycleEndsAtSizeOrTimeout ==
    /\ [](pc = "collecting" => Len(batch) < BATCH_SIZE)
    /\ [][/\ BatchStarts =>
                \/ /\ Len(batch') = BATCH_SIZE
                   /\ Len(batch) = BATCH_SIZE - 1
                   /\ now' = now
                \/ /\ Len(batch') < BATCH_SIZE
                   /\ batch' = batch
                   /\ DequeueTimesOut
          /\ pc = "collecting" /\ batch' # batch /\ ~BatchStarts =>
                /\ pc' = "collecting"
                /\ Len(batch') = Len(batch) + 1
                /\ now' = now
          /\ DequeueTimesOut =>
                /\ now' = now + DequeueTimeout
                /\ request_queue = <<>>
                /\ UNCHANGED request_queue
                /\ batch # <<>> => BatchStarts
                /\ batch = <<>> =>
                       /\ UNCHANGED <<counterVars, windowVars, ghostVars>>
                       /\ UNCHANGED <<batch, idx, attempt, inflight>>
                       /\ pc' = IF processing THEN "collecting" ELSE "exited"]_vars

\* one collection timed out empty and changed nothing; the next one got a
\* single entry and handed it over when its second wait timed out
C20_Witness ==
    /\ pc = "calling"
    /\ Len(batch) = 1
    /\ idx = 1
    /\ attempt = 1
    /\ dispatchLog = <<1>>
    /\ batch[1].start_time = DequeueTimeout
    /\ notion_start = 2 * DequeueTimeout
    /\ now = notion_start

\* the entries of the current batch that have not ended: all of them while
\* the batch is collected, the one being dispatched and those after it
\* once process_batch runs
UnfinishedBatch ==
    IF DispatcherSuspended THEN SubSeq(batch, idx, Len(batch)) ELSE batch

NoDuplicates(q) == \A i, j \in 1..Len(q) : i # j => q[i] # q[j]

\* C21: every submission the driver took from the queue enters the
\* dispatcher once and ends in one outcome, a created record or one
\* failed_requests increment; a submission that was dispatched is neither
\* in the queue nor waiting in the batch again; and the accepted
\* submissions are those still queued, those unfinished in the current
\* batch, those that succeeded and those that failed.
C21_EverySubmissionAccounted ==
    /\ [](total_requests =
             Len(request_queue) + Len(UnfinishedBatch) + Len(pages) + failed_requests)
    /\ [](NoDuplicates(dispatchLog) /\ NoDuplicates(pages))
    /\ [](Range(pages) \subseteq Range(dispatchLog))
    /\ [](Range(Ids(request_queue)) \cap Range(dispatchLog) = {})
    /\ [](Range(Ids(PendingBatch)) \cap Range(dispatchLog) = {})
    /\ [][lastDispatch' # lastDispatch =>
             /\ Len(pages') + failed_requests' = Len(pages) + failed_requests + 1
             /\ lastDispatch'.status = 200 <=> pages' = Append(pages, lastDispatch'.id)
             /\ lastDispatch'.status # 200 <=> failed_requests' = failed_requests + 1
             /\ lastDispatch'.id \notin Range(Ids(request_queue'))
             /\ lastDispatch'.id \notin Range(Ids(UnfinishedBatch'))]_vars

\* one submission failed, one succeeded and a third waits in the queue
C21_Witness ==
    /\ total_requests = 3
    /\ failed_requests = 1
    /\ Len(pages) = 1
    /\ Len(request_queue) = 1

\* C22: the date of the call in flight belongs to the entry being
\* dispatched; for a submission without timestamp it is the clock read at
\* the attempt that sends it, so a later attempt carries a later date and
\* the time of the enqueue plays no part; for a submission with a
\* timestamp it is the supplied text on every attempt, with no clock read.
C22_DateReadAtDispatch ==
    pc = "calling" =>
        LET m == batch[idx].message
        IN  /\ inflight.id = batch[idx].id
            /\ m.timestamp = None =>
                   /\ inflight.date.text = "clock"
                   /\ inflight.date.clock = now
                   /\ inflight.date.clock >= notion_start
                   /\ attempt = 1 => inflight.date.clock = notion_start
                   /\ attempt > 1 => inflight.date.clock > notion_start
            /\ m.timestamp # None =>
                   /\ inflight.date.text = m.timestamp
                   /\ inflight.date.clock < 0

\* the second attempt of a submission without timestamp: its date is the
\* clock of that attempt, later than the first attempt and than the enqueue
C22_Witness ==
    /\ pc = "calling"
    /\ attempt = 2
    /\ batch[idx].message.timestamp = None
    /\ inflight.date.clock = now
    /\ now > notion_start
    /\ notion_start > batch[idx].start_time

\* the fetch of the get_database_info call numbered c is in flight
InFlight(c) == \E p \in pending : p.caller = c

\* a get_database_info call starts and finds no live entry
CallMisses == calls' = calls + 1 /\ CacheGet(db_cache, CacheKey, now) = NoValue

\* C23: a get_database_info call that finds no live entry issues a fetch
\* of its own, also while fetches of earlier calls are in flight, so more
\* than one can be in flight; every fetch in flight ends, and one that
\* returns stores its result whatever the others did: the entry is then
\* the one of the latest store, with a fresh lifetime.
C23_StampedeOnConcurrentMiss ==
    /\ [][/\ CallMisses =>
                /\ fetches' = fetches + 1
                /\ Cardinality(pending') = Cardinality(pending) + 1
                /\ db_cache' = db_cache
          /\ \A p \in pending :
                p \notin pending' /\ returned' = p.value /\ db_cache' # db_cache =>
                    db_cache' = {[key |-> CacheKey, value |-> p.value,
                                  expires |-> now + CACHE_TTL]}
          /\ db_cache' # db_cache =>
                \E p \in pending : p \notin pending' /\ returned' = p.value]_vars
    /\ \A c \in 1..MaxCalls : InFlight(c) ~> ~InFlight(c)

\* two calls missed at the same instant and each issued a fetch; the
\* second fetch has stored its result and the first, still in flight,
\* will replace it
C23_Witness ==
    /\ now = 0
    /\ calls = 2
    /\ fetches = 2
    /\ pending = {[caller |-> 1, value |-> 1]}
    /\ db_cache = {[key |-> CacheKey, value |-> 2, expires |-> CACHE_TTL]}

C25_QueueGaugeWrittenOnlyByWebhook ==
    /\ [](get_stats.current_queue_size = queue_size)
    /\ [][/\ WebhookRuns =>
                /\ get_stats'.current_queue_size = Len(request_queue)
                /\ Len(request_queue') = Len(request_queue) + 1
          /\ get_stats'.current_queue_size # get_stats.current_queue_size => WebhookRuns
          /\ Len(request_queue') < Len(request_queue) =>
                get_stats'.current_queue_size = get_stats.current_queue_size
          /\ lastDispatch' # lastDispatch =>
                get_stats'.current_queue_size = get_stats.current_queue_size]_vars

\* two submissions were accepted, the second with one ahead of it; both have
\* been taken and dispatched, and the statistics still report a depth of one
C25_Witness ==
    /\ total_requests = 2
    /\ get_stats.current_queue_size = 1
    /\ request_queue = <<>>
    /\ UnfinishedBatch = <<>>
    /\ Len(dispatchLog) = 2
====
